---- MODULE Spec2Model ----
(***************************************************************************)
(* Real-time event distribution of the VerifiAI backend:                   *)
(* ConnectionManager (registry + router), the two WebSocket endpoints and  *)
(* the Redis bridge of backend/src/api/routes/websocket.py, with the       *)
(* broker handle of backend/src/core/redis.py.                             *)
(*                                                                         *)
(* Strings that the code splits at ":" are sequences of their ":"-         *)
(* separated segments: "topic:swarm:42" is <<"topic","swarm","42">>,       *)
(* the topic "swarm:42" is <<"swarm","42">>, the identity "bob" is         *)
(* <<"bob">>.                                                              *)
(***************************************************************************)
EXTENDS Integers, Sequences, FiniteSets, TLC

\* ---------------------------------------------------------------- bounds
MaxConns == 2
MaxClients == 1
MaxEvents == 1
MaxTasks == 2
MaxRequests == 1

\* the WebSocket objects, and those of them that connect while producers
\* publish through the bridge
Conns == 1..MaxConns
Clients == 1..MaxClients
Events == 1..MaxEvents
\* the tasks (request handlers, worker tasks) that run concurrently against
\* the shared broker handle, a lock, a rate-limit window or a settlement
Tasks == 1..MaxTasks

Procs == {"P1", "P2"}
\* the process whose manager the registry calls of ApiSpec go to
ApiProcs == {"P1"}
\* P2 is a web server process: it runs lifespan(), the listener and the
\* endpoints.  P1 is a worker process: it imports the same module (its own
\* manager and broker handle) and only calls publish_via_redis, as the
\* tasks of backend/src/workers/tasks do.
Serving == {"P2"}

Users == {<<"alice">>, <<"bob">>}

DefaultTopics == {<<"proofs">>, <<"agents">>, <<"settlements">>, <<"platform">>}
SwarmTopic == <<"swarm", "42">>
ProofTopic == <<"proof", "7">>
ClientTopics == {SwarmTopic, <<"proofs">>}
ApiTopics == {SwarmTopic, <<"proofs">>}
Topics == DefaultTopics \cup {SwarmTopic, ProofTopic}

None == "None"
Handle == "Redis"
\* the Redis object that init_redis() has stored in _redis while its ping is
\* still awaited
Unpinged == "RedisUnpinged"

Targets == {<<"all">>, <<"user", "bob">>, <<"topic", "proofs">>,
            <<"group", "x">>}

VARIABLES
  active_connections,  \* [Procs -> [subset of Users -> Seq(Conns)]]
  subscriptions,       \* [Procs -> [subset of Topics -> SUBSET Users]]
  open,                \* [Conns -> BOOLEAN]: the channel can still carry a send
  pc,                  \* [Conns -> position of the endpoint handler]
  ident,               \* [Conns -> user id the handler was authenticated as]
  home,                \* [Conns -> process that accepted the connection]
  kind,                \* [Conns -> "main" | "proof"]
  brokerUp,            \* the Redis server is reachable
  redis,               \* [Procs -> None | Handle]: core/redis.py _redis
  listener,            \* [Procs -> "boot" | "starting" | "subscribed" | "stopped"]
  inbox,               \* [Procs -> Seq(envelope)]: messages pushed to the pubsub
  nextEvent,           \* id of the next event to be emitted
  sent,                \* [Events -> publishing process and target]
  recv,                \* [Conns -> [Events -> number of receptions]]
  dispatched,          \* [Procs -> SUBSET Events]: envelopes the listener handled
  pending,             \* [Conns -> the reply the handler is about to send]
  acked,               \* [Conns -> topics whose "subscribed" reply the client
                       \*  got and that its identity has not unsubscribed]
  task,                \* the send call of the manager that is in progress
  callers,             \* [Tasks -> a get_redis() call of the server process]
  settlement,          \* the row of one settlement and the work under way on it
  lock,                \* the key of one DistributedLock name and its users
  limiter,             \* the counter of one rate-limit window and its callers
  last                 \* the call made by the last step and its result

vars == <<active_connections, subscriptions, open, pc, ident, home, kind,
          brokerUp, redis, listener, inbox, nextEvent, sent, recv,
          dispatched, pending, acked, task, callers, settlement, lock,
          limiter, last>>
coreVars == <<callers, settlement, lock, limiter>>

\* ------------------------------------------------------- helper operators
Range(s) == {s[i] : i \in 1..Len(s)}

RECURSIVE RemoveFirst(_, _)
\* list.remove(x): removes the first occurrence
RemoveFirst(s, x) ==
  IF s = <<>> THEN <<>>
  ELSE IF Head(s) = x THEN Tail(s)
  ELSE <<Head(s)>> \o RemoveFirst(Tail(s), x)

DictSet(d, k, v) == [x \in (DOMAIN d) \cup {k} |-> IF x = k THEN v ELSE d[x]]
DictDel(d, k) == [x \in (DOMAIN d) \ {k} |-> d[x]]
EmptyDict == [x \in {} |-> x]

\* -------------------------------------------- ConnectionManager (registry)
\* connect(): create the list if absent, append
connect(ac, ws, u) ==
  LET ac1 == IF u \notin DOMAIN ac THEN DictSet(ac, u, <<>>) ELSE ac
  IN  DictSet(ac1, u, Append(ac1[u], ws))

\* disconnect() that forgets "del self.active_connections[user_id]"
disconnect_conns_keeps_key(ac, ws, u) ==
  IF u \in DOMAIN ac
  THEN DictSet(ac, u, IF ws \in Range(ac[u]) THEN RemoveFirst(ac[u], ws)
                                             ELSE ac[u])
  ELSE ac

\* disconnect(), lines 44-49: the identity-to-connections part
disconnect_conns(ac, ws, u) ==
  IF u \in DOMAIN ac
  THEN LET l == IF ws \in Range(ac[u]) THEN RemoveFirst(ac[u], ws) ELSE ac[u]
       IN  IF l = <<>> THEN DictDel(ac, u) ELSE DictSet(ac, u, l)
  ELSE ac

\* disconnect() that prunes the default topics only
disconnect_subs_defaults_only(subs, u) ==
  [t \in DOMAIN subs |-> IF t \in DefaultTopics THEN subs[t] \ {u}
                                                ELSE subs[t]]

\* disconnect(), lines 51-53: the topic part; runs whatever the list became
disconnect_subs(subs, u) ==
  [t \in DOMAIN subs |-> subs[t] \ {u}]

\* subscribe() with the add inside the "if topic not in" block
subscribe_new_topic_only(subs, u, t) ==
  IF t \notin DOMAIN subs THEN DictSet(subs, t, {u}) ELSE subs

subscribe(subs, u, t) ==
  LET s1 == IF t \notin DOMAIN subs THEN DictSet(subs, t, {}) ELSE subs
  IN  DictSet(s1, t, s1[t] \cup {u})

\* unsubscribe() that clears the topic instead of discarding the user
unsubscribe_clears_topic(subs, u, t) ==
  IF t \in DOMAIN subs THEN DictSet(subs, t, {}) ELSE subs

unsubscribe(subs, u, t) ==
  IF t \in DOMAIN subs THEN DictSet(subs, t, subs[t] \ {u}) ELSE subs

RECURSIVE SubscribeAll(_, _, _)
SubscribeAll(subs, u, ts) ==
  IF ts = {} THEN subs
  ELSE LET t == CHOOSE x \in ts : TRUE
       IN  SubscribeAll(subscribe(subs, u, t), u, ts \ {t})

\* ---------------------------------------------- ConnectionManager (router)
\* Result of a send operation: the connections on which send_text was
\* called, and whether the operation raised to its caller.
NoSend == [raised |-> FALSE, attempted |-> {}]

RECURSIVE SendLoop_abort(_, _)
\* a send loop without the per-connection try/except: stops at a failure
SendLoop_abort(conns, isOpen) ==
  IF conns = <<>> THEN {}
  ELSE IF ~isOpen[Head(conns)] THEN {Head(conns)}
  ELSE {Head(conns)} \cup SendLoop_abort(Tail(conns), isOpen)

RECURSIVE SendLoop(_, _)
\* for ws in connections: try: await ws.send_text(...) except Exception: log
SendLoop(conns, isOpen) ==
  IF conns = <<>> THEN {}
  ELSE {Head(conns)} \cup SendLoop(Tail(conns), isOpen)

\* ok = json.dumps(message) succeeds (the payload is JSON-serializable)
send_personal(ac, isOpen, u, ok) ==
  IF u \in DOMAIN ac
  THEN IF ok THEN [raised |-> FALSE, attempted |-> SendLoop(ac[u], isOpen)]
             ELSE [raised |-> TRUE, attempted |-> {}]
  ELSE NoSend

\* a topic broadcast that ignores who subscribed
broadcast_to_topic_everyone(ac, subs, isOpen, t, ok) ==
  IF t \notin DOMAIN subs THEN NoSend
  ELSE IF ~ok THEN [raised |-> TRUE, attempted |-> {}]
  ELSE [raised |-> FALSE,
        attempted |-> UNION {SendLoop(ac[u], isOpen) : u \in DOMAIN ac}]

broadcast_to_topic(ac, subs, isOpen, t, ok) ==
  IF t \notin DOMAIN subs THEN NoSend
  ELSE IF ~ok THEN [raised |-> TRUE, attempted |-> {}]
  ELSE [raised |-> FALSE,
        attempted |-> UNION {IF u \in DOMAIN ac THEN SendLoop(ac[u], isOpen)
                                                ELSE {} : u \in subs[t]}]

broadcast_all(ac, isOpen, ok) ==
  IF ~ok THEN [raised |-> TRUE, attempted |-> {}]
  ELSE [raised |-> FALSE,
        attempted |-> UNION {SendLoop(ac[u], isOpen) : u \in DOMAIN ac}]

\* send_text succeeds exactly on the channels that are still open
Deliver(rc, attempted, isOpen, e) ==
  [c \in Conns |-> IF c \in attempted /\ isOpen[c]
                   THEN [rc[c] EXCEPT ![e] = @ + 1] ELSE rc[c]]

\* ------------------------------------------- api/dependencies.py (auth)
\* The token of the query string, with what the lookups find for it:
\*   form     "ok", or why jwt.decode rejects it
\*   sub      the "sub" claim of the payload, <<>> if it has none
\*   account  the users row with that clerk_id: "active", "inactive", "none"
NoToken == [form |-> "none", sub |-> <<>>, account |-> "none"]
ValidToken(u) == [form |-> "ok", sub |-> u, account |-> "active"]
Tokens ==
  {ValidToken(u) : u \in Users}
    \cup {[form |-> f, sub |-> <<"alice">>, account |-> "active"] :
            f \in {"malformed", "badsig", "expired"}}
    \cup {[form |-> "ok", sub |-> <<>>, account |-> "none"],
          [form |-> "ok", sub |-> <<"alice">>, account |-> "none"],
          [form |-> "ok", sub |-> <<"alice">>, account |-> "inactive"]}

\* verify_ws_token returned None
NoUser == <<>>
NoClaims == [present |-> FALSE, sub |-> <<>>]

\* verify_clerk_token(): the payload, or None on any jwt error
verify_clerk_token(tok) ==
  IF tok.form = "ok" THEN [present |-> TRUE, sub |-> tok.sub] ELSE NoClaims

\* verify_ws_token() without the is_active test
verify_ws_token_ignores_active(tok) ==
  LET claims == verify_clerk_token(tok)
  IN  IF ~claims.present THEN NoUser
      ELSE IF claims.sub = <<>> THEN NoUser
      ELSE IF tok.account # "none" THEN claims.sub
      ELSE NoUser

\* verify_ws_token(): the user, only if the row exists and is active
verify_ws_token(tok) ==
  LET claims == verify_clerk_token(tok)
  IN  IF ~claims.present THEN NoUser
      ELSE IF claims.sub = <<>> THEN NoUser
      ELSE IF tok.account = "active" THEN claims.sub
      ELSE NoUser

\* websocket.close(code=4001, ...)
RejectCode == 4001

\* ------------------------------------------------------- core/redis.py
\* init_redis(): the handle is kept only if the ping succeeded
init_redis(up) == IF up THEN Handle ELSE None

\* get_redis(): lazily (re-)initialise a null handle
get_redis(r, up) == IF r = None THEN init_redis(up) ELSE r

\* ------------------------------------------------------ the Redis bridge
\* target.startswith(prefix + ":")
StartsWith(target, prefix) == Len(target) >= 2 /\ target[1] = prefix

\* a dispatch that takes the part before the ":" for the name
Dispatch_wrong_split(ac, subs, isOpen, target, ok) ==
  IF target = <<"all">> THEN broadcast_all(ac, isOpen, ok)
  ELSE IF target = <<>> THEN [raised |-> TRUE, attempted |-> {}]
  ELSE IF StartsWith(target, "user")
       THEN send_personal(ac, isOpen, <<Head(target)>>, ok)
  ELSE IF StartsWith(target, "topic")
       THEN broadcast_to_topic(ac, subs, isOpen, <<Head(target)>>, ok)
  ELSE NoSend

\* The dispatch on the target discriminator shared by the listener and by
\* the fallback of publish_via_redis; target.split(":", 1)[1] is the tail.
\* <<>> stands for a target that is not a string (None).
Dispatch(ac, subs, isOpen, target, ok) ==
  IF target = <<"all">> THEN broadcast_all(ac, isOpen, ok)
  ELSE IF target = <<>> THEN [raised |-> TRUE, attempted |-> {}]
  ELSE IF StartsWith(target, "user")
       THEN send_personal(ac, isOpen, Tail(target), ok)
  ELSE IF StartsWith(target, "topic")
       THEN broadcast_to_topic(ac, subs, isOpen, Tail(target), ok)
  ELSE NoSend

\* a try block whose broker branch also delivers locally
publish_body_both(h, up, ac, subs, isOpen, target, ok) ==
  LET r == Dispatch(ac, subs, isOpen, target, ok)
  IN  IF h # None
      THEN IF ~ok
           THEN [path |-> "broker", enqueue |-> FALSE, attempted |-> {},
                 exc |-> "serialize"]
           ELSE IF up
           THEN [path |-> "broker", enqueue |-> TRUE,
                 attempted |-> r.attempted, exc |-> "none"]
           ELSE [path |-> "broker", enqueue |-> FALSE, attempted |-> {},
                 exc |-> "publish"]
      ELSE [path |-> "fallback", enqueue |-> FALSE,
            attempted |-> r.attempted,
            exc |-> IF r.raised THEN "fallback" ELSE "none"]

\* The body of the try block of publish_via_redis(); h is what get_redis()
\* returned.
\*   path     which branch ran
\*   enqueue  redis.publish handed the envelope to the broker
\*   exc      the exception that left the body, "none" if it completed
publish_body(h, up, ac, subs, isOpen, target, ok) ==
  IF h # None
  THEN IF ~ok
       THEN [path |-> "broker", enqueue |-> FALSE, attempted |-> {},
             exc |-> "serialize"]
       ELSE IF up
       THEN [path |-> "broker", enqueue |-> TRUE, attempted |-> {},
             exc |-> "none"]
       ELSE [path |-> "broker", enqueue |-> FALSE, attempted |-> {},
             exc |-> "publish"]
  ELSE LET r == Dispatch(ac, subs, isOpen, target, ok)
       IN  [path |-> "fallback", enqueue |-> FALSE,
            attempted |-> r.attempted,
            exc |-> IF r.raised THEN "fallback" ELSE "none"]

\* publish_via_redis() without its except clause
publish_via_redis_uncaught(h, up, ac, subs, isOpen, target, ok) ==
  LET b == publish_body(h, up, ac, subs, isOpen, target, ok)
  IN  [path |-> b.path, enqueue |-> b.enqueue, attempted |-> b.attempted,
       caught |-> "none", raised |-> b.exc # "none"]

\* publish_via_redis(): "except Exception" logs whatever left the body
publish_via_redis(h, up, ac, subs, isOpen, target, ok) ==
  LET b == publish_body(h, up, ac, subs, isOpen, target, ok)
  IN  [path |-> b.path, enqueue |-> b.enqueue, attempted |-> b.attempted,
       caught |-> b.exc, raised |-> FALSE]

\* a listener that takes the handle for a working connection
start_redis_listener_blind(h, up) ==
  IF h = None THEN "stopped" ELSE "subscribed"

\* start_redis_listener() from its call to the "async for": where the task
\* is afterwards.  Without a handle it returns; if pubsub.subscribe raises,
\* the outer "except Exception" logs and the task returns.
start_redis_listener(h, up) ==
  IF h = None THEN "stopped"
  ELSE IF up THEN "subscribed"
  ELSE "stopped"

\* an envelope the listener cannot route: data that is not a JSON object, a
\* target that is missing or null, a target with an unknown prefix
Malformed(env) ==
  \/ env.raw # "json"
  \/ env.target = <<>>
  \/ env.target # <<"all">> /\ ~StartsWith(env.target, "user")
                            /\ ~StartsWith(env.target, "topic")

\* a listener without the try block around the handling of one message: an
\* exception ends the "async for" and reaches the outer except
listen_one_unguarded(env, ac, subs, isOpen) ==
  IF env.raw # "json"
  THEN [attempted |-> {}, exc |-> "json", alive |-> FALSE]
  ELSE LET r == Dispatch(ac, subs, isOpen, env.target, TRUE)
       IN  [attempted |-> r.attempted,
            exc |-> IF r.raised THEN "dispatch" ELSE "none",
            alive |-> ~r.raised]

\* The body of "async for message in pubsub.listen()" for one message of
\* type "message".  env.raw is "json" if message["data"] parses to an
\* object; env.target is data.get("target"), <<>> if missing or null.
\*   exc    the exception that the inner "except Exception" logged
\*   alive  the loop goes on to the next message
listen_one(env, ac, subs, isOpen) ==
  IF env.raw # "json"
  THEN [attempted |-> {}, exc |-> "json", alive |-> TRUE]
  ELSE LET r == Dispatch(ac, subs, isOpen, env.target, TRUE)
       IN  [attempted |-> r.attempted,
            exc |-> IF r.raised THEN "dispatch" ELSE "none",
            alive |-> TRUE]

\* ------------------------------------------------------------------ Init
\* last: the call, its result, and what the identity had before the call
NoCall == [op |-> "none", proc |-> "none", ws |-> 0, u |-> <<>>, t |-> <<>>,
           ok |-> TRUE, raised |-> FALSE, attempted |-> {}, delivered |-> {},
           preConns |-> <<>>, preTopics |-> {}, path |-> "none",
           caught |-> "none", up |-> TRUE, e |-> 0,
           tok |-> NoToken, code |-> 0, msg |-> "none", reply |-> "none",
           preAc |-> EmptyDict, preSubs |-> EmptyDict,
           prevOp |-> "none", preSet |-> {}, prevSet |-> {},
           stayed |-> {}]

\* no reply under way; stale marks a "subscribed" reply whose topic the
\* identity unsubscribed before the reply was sent
NoMsg == [type |-> "none", topic |-> <<>>, stale |-> FALSE]

\* an endpoint that greets every client with the "tracking" message
Welcome_tracking(k) == [type |-> "tracking", subscriptions |-> <<>>]

Welcome(k) ==
  IF k = "main"
  THEN [type |-> "connected",
        subscriptions |-> <<<<"proofs">>, <<"agents">>, <<"settlements">>,
                            <<"platform">>>>]
  ELSE [type |-> "tracking", subscriptions |-> <<>>]

\* no send call in progress.  A call in progress is suspended in
\* "await ws.send_text" on the connection cur:
\*   users     the keys the outer loop has already taken
\*   size      len() of the container of the outer loop when it started
\*   u, idx    the list being iterated is that of u, next index idx
\*   attached  that list object is still active_connections[u]
\*   stayed    connections of the addressee registered since the call began
\*   sentTo    the connections on which send_text was called
Idle == [op |-> "idle", proc |-> "none", e |-> 0, t |-> <<>>, users |-> {},
         size |-> 0, u |-> <<>>, idx |-> 0, attached |-> FALSE, cur |-> 0,
         stayed |-> {}, sentTo |-> {}]

\* a task that is not inside get_redis(); got: what its last call returned
NoCaller == [pc |-> "idle", got |-> None]

\* no request or worker task is using the slot
NoJob == [kind |-> "none", pc |-> "free", tries |-> 0]

\* POST /settlements: a new settlement is PENDING
NewSettlement ==
  [status |-> "pending", everCompleted |-> FALSE, published |-> 0,
   jobs |-> [j \in Tasks |-> NoJob]]

\* DistributedLock.__init__: no token; the key does not exist (0)
NoLockUser == [pc |-> "idle", token |-> 0, acquired |-> FALSE]
FreeLock == [key |-> 0, users |-> [t \in Tasks |-> NoLockUser]]

\* a window in which nothing was counted yet
NoLimitCall == [pc |-> "idle", count |-> 0, allowed |-> FALSE,
                remaining |-> 0, failed |-> FALSE]
FreshWindow == [count |-> 0, expiry |-> FALSE, granted |-> 0,
                calls |-> [t \in Tasks |-> NoLimitCall]]

ConnsOf(ac, u) == IF u \in DOMAIN ac THEN ac[u] ELSE <<>>
TopicsOf(subs, u) == {t \in DOMAIN subs : u \in subs[t]}
Unsent == [proc |-> "none", target |-> <<>>]

Init ==
  /\ active_connections = [p \in Procs |-> EmptyDict]
  /\ subscriptions = [p \in Procs |-> EmptyDict]
  /\ open = [c \in Conns |-> TRUE]
  /\ pc = [c \in Conns |-> "new"]
  /\ ident = [c \in Conns |-> <<>>]
  /\ home = [c \in Conns |-> "none"]
  /\ kind = [c \in Conns |-> "none"]
  /\ brokerUp = TRUE
  /\ redis = [p \in Procs |-> None]
  /\ listener = [p \in Procs |-> "boot"]
  /\ inbox = [p \in Procs |-> <<>>]
  /\ nextEvent = 1
  /\ sent = [e \in Events |-> Unsent]
  /\ recv = [c \in Conns |-> [e \in Events |-> 0]]
  /\ dispatched = [p \in Procs |-> {}]
  /\ pending = [c \in Conns |-> NoMsg]
  /\ acked = [c \in Conns |-> {}]
  /\ task = Idle
  /\ callers = [t \in Tasks |-> NoCaller]
  /\ settlement = NewSettlement
  /\ lock = FreeLock
  /\ limiter = FreshWindow
  /\ last = NoCall

\* The remote end goes away: every later send_text on the channel raises.
ClientClose(c) ==
  /\ pc[c] \in {"welcome", "loop", "reply"}
  /\ open[c]
  /\ open' = [open EXCEPT ![c] = FALSE]
  /\ acked' = [acked EXCEPT ![c] = {}]
  /\ last' = NoCall
  /\ UNCHANGED <<active_connections, subscriptions, pc, ident, home, kind,
                 brokerUp, redis, listener, inbox, nextEvent, sent, recv,
                 dispatched, pending, task>>
  /\ UNCHANGED coreVars

\* --------------------------------------------------------------- ApiSpec
\* Calls of the ConnectionManager methods in any order, on one manager.
bridgeVars == <<brokerUp, redis, listener, inbox, nextEvent, sent, recv,
                dispatched>>
clientVars == <<pending, acked>>

\* What disconnect(ws, u) does to a send call suspended in the same manager:
\* "del self.active_connections[u]" leaves the loop with a list object that
\* is no longer in the dict (and is empty).
TaskAfterDisconnect(tk, p, u, acAfter) ==
  IF tk.op = "idle" \/ tk.proc # p \/ tk.u # u THEN tk
  ELSE [tk EXCEPT !.attached = @ /\ u \in DOMAIN acAfter,
                  !.stayed = @ \cap Range(ConnsOf(acAfter, u))]

\* manager.connect(ws, u); websocket.accept() succeeds once per websocket
ApiConnect(p, ws, u) ==
  /\ pc[ws] = "new"
  /\ active_connections' =
       [active_connections EXCEPT ![p] = connect(@, ws, u)]
  /\ pc' = [pc EXCEPT ![ws] = "loop"]
  /\ ident' = [ident EXCEPT ![ws] = u]
  /\ home' = [home EXCEPT ![ws] = p]
  /\ kind' = [kind EXCEPT ![ws] = "api"]
  /\ last' = [NoCall EXCEPT !.op = "connect", !.proc = p, !.ws = ws, !.u = u]
  /\ UNCHANGED <<subscriptions, open>>
  /\ UNCHANGED bridgeVars
  /\ UNCHANGED <<pending, acked, task>>
  /\ UNCHANGED coreVars

ApiDisconnect(p, ws, u) ==
  /\ active_connections' =
       [active_connections EXCEPT ![p] = disconnect_conns(@, ws, u)]
  /\ subscriptions' = [subscriptions EXCEPT ![p] = disconnect_subs(@, u)]
  /\ last' = [NoCall EXCEPT !.op = "disconnect", !.proc = p, !.ws = ws,
                !.u = u,
                !.preConns = ConnsOf(active_connections[p], u),
                !.preTopics = TopicsOf(subscriptions[p], u),
                !.preAc = active_connections[p],
                !.preSubs = subscriptions[p]]
  /\ task' = TaskAfterDisconnect(task, p, u,
                                 disconnect_conns(active_connections[p], ws, u))
  /\ UNCHANGED <<open, pc, ident, home, kind>>
  /\ UNCHANGED bridgeVars
  /\ UNCHANGED clientVars
  /\ UNCHANGED coreVars

\* the subscriber set of a topic as the router reads it (lines 81-85): no
\* key, no subscribers
subscribers_of(subs, t) == IF t \in DOMAIN subs THEN subs[t] ELSE {}

\* What a subscribe/unsubscribe call records, besides the call:
\*   prevOp   the call before it, when that was a subscribe of the same
\*            identity and topic, or the same unsubscribe
\*   preSet   (subscribe) the subscriber set of the topic before the call
\*   prevSet  (unsubscribe right after subscribe) the subscriber set of the
\*            topic before that subscribe
\*   preSubs  (repetition of the same call) all subscriptions before it
SubRecord(p, op, u, t) ==
  LET follows == /\ last.op \in {"subscribe", op}
                 /\ last.proc = p /\ last.u = u /\ last.t = t
  IN  [NoCall EXCEPT !.op = op, !.proc = p, !.u = u, !.t = t,
                     !.prevOp = IF follows THEN last.op ELSE "none",
                     !.preSet = IF op = "subscribe"
                                THEN subscribers_of(subscriptions[p], t)
                                ELSE {},
                     !.prevSet = IF follows /\ op = "unsubscribe"
                                      /\ last.op = "subscribe"
                                 THEN last.preSet ELSE {},
                     !.preSubs = IF follows /\ last.op = op
                                 THEN subscriptions[p] ELSE EmptyDict]

ApiSubscribe(p, u, t) ==
  /\ subscriptions' = [subscriptions EXCEPT ![p] = subscribe(@, u, t)]
  /\ last' = SubRecord(p, "subscribe", u, t)
  /\ UNCHANGED <<active_connections, open, pc, ident, home, kind>>
  /\ UNCHANGED bridgeVars
  /\ UNCHANGED <<pending, acked, task>>
  /\ UNCHANGED coreVars

ApiUnsubscribe(p, u, t) ==
  /\ subscriptions' = [subscriptions EXCEPT ![p] = unsubscribe(@, u, t)]
  /\ last' = SubRecord(p, "unsubscribe", u, t)
  /\ UNCHANGED <<active_connections, open, pc, ident, home, kind>>
  /\ UNCHANGED bridgeVars
  /\ UNCHANGED <<pending, acked, task>>
  /\ UNCHANGED coreVars

SendRecord(p, op, u, t, ok, r) ==
  [NoCall EXCEPT !.op = op, !.proc = p, !.u = u, !.t = t, !.ok = ok,
                 !.raised = r.raised, !.attempted = r.attempted,
                 !.delivered = {c \in r.attempted : open[c]}]

ApiSendPersonal(p, u, ok) ==
  /\ last' = SendRecord(p, "send_personal", u, <<>>, ok,
                send_personal(active_connections[p], open, u, ok))
  /\ UNCHANGED <<active_connections, subscriptions, open, pc, ident, home,
                 kind>>
  /\ UNCHANGED bridgeVars
  /\ UNCHANGED <<pending, acked, task>>
  /\ UNCHANGED coreVars

ApiBroadcastToTopic(p, t, ok) ==
  /\ last' = SendRecord(p, "broadcast_to_topic", <<>>, t, ok,
                broadcast_to_topic(active_connections[p], subscriptions[p],
                                   open, t, ok))
  /\ UNCHANGED <<active_connections, subscriptions, open, pc, ident, home,
                 kind>>
  /\ UNCHANGED bridgeVars
  /\ UNCHANGED <<pending, acked, task>>
  /\ UNCHANGED coreVars

ApiBroadcastAll(p, ok) ==
  /\ last' = SendRecord(p, "broadcast_all", <<>>, <<>>, ok,
                broadcast_all(active_connections[p], open, ok))
  /\ UNCHANGED <<active_connections, subscriptions, open, pc, ident, home,
                 kind>>
  /\ UNCHANGED bridgeVars
  /\ UNCHANGED <<pending, acked, task>>
  /\ UNCHANGED coreVars

ApiNext ==
  \E p \in ApiProcs :
    \/ \E ws \in Conns, u \in Users : ApiConnect(p, ws, u)
    \/ \E ws \in Conns, u \in Users : ApiDisconnect(p, ws, u)
    \/ \E u \in Users, t \in ApiTopics : ApiSubscribe(p, u, t)
    \/ \E u \in Users, t \in ApiTopics : ApiUnsubscribe(p, u, t)
    \/ \E c \in Conns : ClientClose(c)
    \/ \E u \in Users, ok \in BOOLEAN : ApiSendPersonal(p, u, ok)
    \/ \E t \in ApiTopics, ok \in BOOLEAN : ApiBroadcastToTopic(p, t, ok)
    \/ \E ok \in BOOLEAN : ApiBroadcastAll(p, ok)

ApiSpec == Init /\ [][ApiNext]_vars

\* -------------------------------------------------------------- SendSpec
\* The send operations one "await ws.send_text" at a time.  The for loops
\* run over the live objects of the manager: the list of an identity (an
\* index into the list object), the subscriber set of a topic and the dict
\* of all identities (both refuse to go on once their size has changed).
\*
\* Step: from the end of one send_text (or from the call) to the next
\* suspension, the return or the exception.  nx is the key the outer loop
\* takes next (<<>>: it takes none), skip the subscribers without a
\* connection that it passes before; valid tells whether the loop can make
\* that choice.
Step(tk, ac, subs, nx, skip) ==
  LET lst == IF tk.attached THEN ConnsOf(ac, tk.u) ELSE <<>>
      container == IF tk.op = "broadcast_to_topic"
                   THEN subscribers_of(subs, tk.t) ELSE DOMAIN ac
      cand == container \ tk.users
      live == cand \cap DOMAIN ac
  IN  IF tk.idx <= Len(lst)
      THEN \* for ws in <list>: the next element of the list object
           [valid |-> nx = <<>> /\ skip = {}, outcome |-> "suspended",
            task |-> [tk EXCEPT !.cur = lst[tk.idx], !.idx = @ + 1]]
      ELSE IF tk.op = "send_personal"
      THEN [valid |-> nx = <<>> /\ skip = {}, outcome |-> "done",
            task |-> tk]
      ELSE IF \/ Cardinality(container) # tk.size
              \/ /\ tk.op = "broadcast_all"
                 /\ cand # {}
                 /\ Cardinality(tk.users) >= tk.size
      THEN \* RuntimeError: Set / dictionary changed size during iteration,
           \* dictionary keys changed during iteration
           [valid |-> nx = <<>> /\ skip = {}, outcome |-> "raised",
            task |-> tk]
      ELSE IF nx = <<>>
      THEN [valid |-> live = {} /\ skip = {}, outcome |-> "done",
            task |-> tk]
      ELSE [valid |-> nx \in live /\ skip \subseteq (cand \ DOMAIN ac),
            outcome |-> "suspended",
            task |-> IF nx \in DOMAIN ac
                     THEN [tk EXCEPT !.users = @ \cup skip \cup {nx},
                                     !.u = nx, !.idx = 2, !.attached = TRUE,
                                     !.cur = ac[nx][1]]
                     ELSE tk]

\* the call goes on to its next suspension, or ends: its record
Continue(r) ==
  /\ task' = IF r.outcome = "suspended" THEN r.task ELSE Idle
  /\ last' = IF r.outcome = "suspended" THEN NoCall
             ELSE [NoCall EXCEPT !.op = r.task.op, !.proc = r.task.proc,
                                 !.path = "stepwise", !.e = r.task.e,
                                 !.u = IF r.task.op = "send_personal"
                                       THEN r.task.u ELSE <<>>,
                                 !.t = r.task.t,
                                 !.raised = r.outcome = "raised",
                                 !.attempted = r.task.sentTo,
                                 !.delivered =
                                   {c \in Conns : recv'[c][r.task.e] > 0},
                                 !.stayed = r.task.stayed]

\* send_personal(u, ...), broadcast_to_topic(t, ...) or broadcast_all(...)
\* is called with a serializable message and runs to its first await
SendStart(p, op, u, t, nx, skip) ==
  /\ task = Idle
  /\ nextEvent <= MaxEvents
  /\ LET ac == active_connections[p]
         tk0 == [Idle EXCEPT
                   !.op = op, !.proc = p, !.e = nextEvent, !.t = t,
                   !.u = u, !.idx = 1,
                   !.attached = op = "send_personal" /\ u \in DOMAIN ac,
                   !.size = IF op = "broadcast_to_topic"
                            THEN Cardinality(subscribers_of(subscriptions[p], t))
                            ELSE IF op = "broadcast_all"
                            THEN Cardinality(DOMAIN ac) ELSE 0,
                   !.stayed = IF op = "send_personal"
                              THEN Range(ConnsOf(ac, u)) ELSE {}]
         r == Step(tk0, ac, subscriptions[p], nx, skip)
     IN  /\ r.valid
         /\ recv' = recv
         /\ Continue(r)
  /\ nextEvent' = nextEvent + 1
  /\ UNCHANGED <<active_connections, subscriptions, open, pc, ident, home,
                 kind, brokerUp, redis, listener, inbox, sent, dispatched,
                 pending, acked>>
  /\ UNCHANGED coreVars

\* the pending "await ws.send_text" returns, or raises into the
\* "except Exception" around it, and the loops go on
SendResume(p, nx, skip) ==
  /\ task.op # "idle"
  /\ task.proc = p
  /\ LET tk1 == [task EXCEPT !.sentTo = @ \cup {task.cur}, !.cur = 0]
         r == Step(tk1, active_connections[p], subscriptions[p], nx, skip)
     IN  /\ r.valid
         /\ recv' = Deliver(recv, {task.cur}, open, task.e)
         /\ Continue(r)
  /\ UNCHANGED <<active_connections, subscriptions, open, pc, ident, home,
                 kind, brokerUp, redis, listener, inbox, nextEvent, sent,
                 dispatched, pending, acked>>
  /\ UNCHANGED coreVars

NoKey == <<>>

SendNext ==
  \E p \in ApiProcs :
    \/ \E ws \in Conns, u \in Users : ApiConnect(p, ws, u)
    \/ \E ws \in Conns, u \in Users : ApiDisconnect(p, ws, u)
    \/ \E u \in Users : ApiSubscribe(p, u, SwarmTopic)
    \/ \E u \in Users : ApiUnsubscribe(p, u, SwarmTopic)
    \/ \E c \in Conns : ClientClose(c)
    \/ \E u \in Users : SendStart(p, "send_personal", u, <<>>, NoKey, {})
    \/ \E nx \in Users \cup {NoKey}, skip \in SUBSET Users :
         SendStart(p, "broadcast_to_topic", <<>>, SwarmTopic, nx, skip)
    \/ \E nx \in Users \cup {NoKey} :
         SendStart(p, "broadcast_all", <<>>, <<>>, nx, {})
    \/ \E nx \in Users \cup {NoKey}, skip \in SUBSET Users :
         SendResume(p, nx, skip)

SendSpec == Init /\ [][SendNext]_vars

\* ------------------------------------------------------------------ Spec
\* The server processes: endpoint handlers, the bridge and the broker.
Ping == [action |-> "ping", topic |-> <<>>]
Bogus == [action |-> "bogus", topic |-> <<>>]
NotJson == [action |-> "not-json", topic |-> <<>>]
\* JSON that is no object (a list, a number): data.get raises
NotObject == [action |-> "not-object", topic |-> <<>>]
ClientMsgs ==
  {Ping, Bogus, NotJson, NotObject}
    \cup {[action |-> a, topic |-> t] :
            a \in {"subscribe", "unsubscribe"}, t \in ClientTopics \cup {<<>>}}

\* the message the handler of an endpoint of kind k sends in answer to m;
\* NoMsg when it sends none
Reply(k, m) ==
  IF m.action = "ping" THEN [NoMsg EXCEPT !.type = "pong"]
  ELSE IF k # "main" THEN NoMsg
  ELSE IF m.action = "subscribe"
       THEN IF m.topic # <<>>
            THEN [NoMsg EXCEPT !.type = "subscribed", !.topic = m.topic]
            ELSE NoMsg
  ELSE IF m.action = "unsubscribe"
       THEN IF m.topic # <<>>
            THEN [NoMsg EXCEPT !.type = "unsubscribed", !.topic = m.topic]
            ELSE NoMsg
  ELSE [NoMsg EXCEPT !.type = "error"]

regVars == <<active_connections, subscriptions>>
connVars == <<open, pc, ident, home, kind>>
brokerVars == <<brokerUp, redis, listener, inbox>>
eventVars == <<nextEvent, sent, recv, dispatched>>

\* the except branches of the endpoints: manager.disconnect(websocket, user_id)
Unregister(c) ==
  /\ active_connections' =
       [active_connections EXCEPT ![home[c]] = disconnect_conns(@, c, ident[c])]
  /\ subscriptions' =
       [subscriptions EXCEPT ![home[c]] = disconnect_subs(@, ident[c])]

\* websocket_endpoint / proof_status_websocket up to the welcome message:
\* verify_ws_token returned a user; register; subscribe; the welcome
\* message is built and about to be sent
WsConnect(c, p, tok, k) ==
  /\ pc[c] = "new"
  /\ listener[p] # "boot"
  /\ verify_ws_token(tok) # NoUser
  /\ LET u == verify_ws_token(tok)
     IN  /\ active_connections' =
              [active_connections EXCEPT ![p] = connect(@, c, u)]
         /\ subscriptions' =
              [subscriptions EXCEPT ![p] =
                 IF k = "main" THEN SubscribeAll(@, u, DefaultTopics)
                               ELSE subscribe(@, u, ProofTopic)]
         /\ ident' = [ident EXCEPT ![c] = u]
         /\ last' = [NoCall EXCEPT !.op = "ws_connect", !.proc = p,
                       !.ws = c, !.u = u, !.tok = tok,
                       !.preTopics = TopicsOf(subscriptions[p], u)]
  /\ pc' = [pc EXCEPT ![c] = "welcome"]
  /\ home' = [home EXCEPT ![c] = p]
  /\ kind' = [kind EXCEPT ![c] = k]
  /\ pending' = [pending EXCEPT ![c] = Welcome(k)]
  /\ UNCHANGED <<open>>
  /\ UNCHANGED brokerVars
  /\ UNCHANGED eventVars
  /\ UNCHANGED <<acked, task>>
  /\ UNCHANGED coreVars

\* verify_ws_token returned None: close(code=4001) and return
WsReject(c, p, tok) ==
  /\ pc[c] = "new"
  /\ listener[p] # "boot"
  /\ verify_ws_token(tok) = NoUser
  /\ pc' = [pc EXCEPT ![c] = "rejected"]
  /\ home' = [home EXCEPT ![c] = p]
  /\ open' = [open EXCEPT ![c] = FALSE]
  /\ UNCHANGED <<ident, kind>>
  /\ last' = [NoCall EXCEPT !.op = "ws_reject", !.proc = p, !.ws = c,
                !.tok = tok, !.code = RejectCode,
                !.preAc = active_connections[p],
                !.preSubs = subscriptions[p]]
  /\ UNCHANGED regVars
  /\ UNCHANGED brokerVars
  /\ UNCHANGED eventVars
  /\ UNCHANGED <<pending, acked, task>>
  /\ UNCHANGED coreVars

\* await websocket.send_json(welcome): outside the try block, so a failure
\* ends the handler without manager.disconnect
WsWelcome(c) ==
  /\ pc[c] = "welcome"
  /\ pc' = [pc EXCEPT ![c] = IF open[c] THEN "loop" ELSE "crashed"]
  /\ pending' = [pending EXCEPT ![c] = NoMsg]
  /\ UNCHANGED <<open, ident, home, kind, acked, task>>
  /\ last' = NoCall
  /\ UNCHANGED regVars
  /\ UNCHANGED brokerVars
  /\ UNCHANGED eventVars
  /\ UNCHANGED coreVars

\* data = await websocket.receive_json() and the synchronous part of the
\* handling; the reply is sent in WsReply
WsReceive(c, m) ==
  /\ pc[c] = "loop"
  /\ open[c]
  /\ IF m \in {NotJson, NotObject}
     THEN \* receive_json or data.get raises: except Exception ->
          \* manager.disconnect, and the handler returns
          /\ Unregister(c)
          /\ pc' = [pc EXCEPT ![c] = "done"]
          /\ open' = [open EXCEPT ![c] = FALSE]
          /\ acked' = [acked EXCEPT ![c] = {}]
          /\ pending' = pending
     ELSE /\ open' = open
          /\ active_connections' = active_connections
          /\ subscriptions' =
               [subscriptions EXCEPT ![home[c]] =
                  IF kind[c] # "main" \/ m.topic = <<>> THEN @
                  ELSE IF m.action = "subscribe"
                       THEN subscribe(@, ident[c], m.topic)
                  ELSE IF m.action = "unsubscribe"
                       THEN unsubscribe(@, ident[c], m.topic)
                  ELSE @]
          /\ pc' = [pc EXCEPT ![c] =
                      IF Reply(kind[c], m) = NoMsg THEN "loop" ELSE "reply"]
          /\ IF Reply(kind[c], m).type = "unsubscribed"
             THEN \* the identity gives the topic up, on all its connections
                  /\ acked' = [d \in Conns |->
                                 IF ident[d] = ident[c] /\ home[d] = home[c]
                                 THEN acked[d] \ {m.topic} ELSE acked[d]]
                  /\ pending' = [d \in Conns |->
                                   IF d = c THEN Reply(kind[c], m)
                                   ELSE IF /\ ident[d] = ident[c]
                                           /\ home[d] = home[c]
                                           /\ pending[d].type = "subscribed"
                                           /\ pending[d].topic = m.topic
                                   THEN [pending[d] EXCEPT !.stale = TRUE]
                                   ELSE pending[d]]
             ELSE /\ acked' = acked
                  /\ pending' = [pending EXCEPT ![c] = Reply(kind[c], m)]
  /\ last' = [NoCall EXCEPT !.op = "receive", !.proc = home[c], !.ws = c,
                !.u = ident[c], !.msg = m.action, !.t = m.topic,
                !.reply = IF m \in {NotJson, NotObject} THEN "none"
                          ELSE Reply(kind[c], m).type]
  /\ UNCHANGED <<ident, home, kind, task>>
  /\ UNCHANGED brokerVars
  /\ UNCHANGED eventVars
  /\ UNCHANGED coreVars

\* await websocket.send_json(reply) inside the try block
WsReply(c) ==
  /\ pc[c] = "reply"
  /\ IF open[c]
     THEN /\ pc' = [pc EXCEPT ![c] = "loop"]
          /\ acked' = [acked EXCEPT ![c] =
                         IF pending[c].type = "subscribed" /\ ~pending[c].stale
                         THEN @ \cup {pending[c].topic} ELSE @]
          /\ UNCHANGED regVars
     ELSE /\ Unregister(c)
          /\ pc' = [pc EXCEPT ![c] = "done"]
          /\ acked' = acked
  /\ pending' = [pending EXCEPT ![c] = NoMsg]
  /\ last' = [NoCall EXCEPT !.op = "reply", !.proc = home[c], !.ws = c,
                !.u = ident[c], !.reply = pending[c].type,
                !.t = pending[c].topic,
                !.delivered = IF open[c] THEN {c} ELSE {}]
  /\ UNCHANGED <<open, ident, home, kind, task>>
  /\ UNCHANGED brokerVars
  /\ UNCHANGED eventVars
  /\ UNCHANGED coreVars

\* receive_json raises WebSocketDisconnect
WsDisconnected(c) ==
  /\ pc[c] = "loop"
  /\ ~open[c]
  /\ active_connections' =
       [active_connections EXCEPT ![home[c]] = disconnect_conns(@, c, ident[c])]
  /\ subscriptions' =
       [subscriptions EXCEPT ![home[c]] =
          disconnect_subs(IF kind[c] = "proof"
                          THEN unsubscribe(@, ident[c], ProofTopic) ELSE @,
                          ident[c])]
  /\ pc' = [pc EXCEPT ![c] = "done"]
  /\ UNCHANGED <<open, ident, home, kind>>
  /\ last' = NoCall
  /\ UNCHANGED brokerVars
  /\ UNCHANGED eventVars
  /\ UNCHANGED <<pending, acked, task>>
  /\ UNCHANGED coreVars

\* lifespan(): await init_redis(), then create_task(start_redis_listener())
Startup(p) ==
  /\ listener[p] = "boot"
  /\ redis' = [redis EXCEPT ![p] = init_redis(brokerUp)]
  /\ listener' = [listener EXCEPT ![p] = "starting"]
  /\ UNCHANGED <<brokerUp, inbox>>
  /\ last' = NoCall
  /\ UNCHANGED regVars
  /\ UNCHANGED connVars
  /\ UNCHANGED eventVars
  /\ UNCHANGED <<pending, acked, task>>
  /\ UNCHANGED coreVars

\* start_redis_listener() up to pubsub.subscribe
ListenerStart(p) ==
  /\ listener[p] = "starting"
  /\ LET h == get_redis(redis[p], brokerUp)
     IN  /\ redis' = [redis EXCEPT ![p] = h]
         /\ listener' = [listener EXCEPT ![p] =
                           start_redis_listener(h, brokerUp)]
  /\ UNCHANGED <<brokerUp, inbox>>
  /\ last' = NoCall
  /\ UNCHANGED regVars
  /\ UNCHANGED connVars
  /\ UNCHANGED eventVars
  /\ UNCHANGED <<pending, acked, task>>
  /\ UNCHANGED coreVars

\* one iteration of "async for message in pubsub.listen()"
ListenerStep(p) ==
  /\ listener[p] = "subscribed"
  /\ inbox[p] # <<>>
  /\ LET env == Head(inbox[p])
         r == listen_one(env, active_connections[p], subscriptions[p], open)
     IN  /\ recv' = IF env.e \in Events
                    THEN Deliver(recv, r.attempted, open, env.e) ELSE recv
         /\ dispatched' = [dispatched EXCEPT ![p] = @ \cup ({env.e} \cap Events)]
         /\ listener' = [listener EXCEPT ![p] =
                           IF r.alive THEN @ ELSE "stopped"]
         /\ inbox' = [inbox EXCEPT ![p] = IF r.alive THEN Tail(@) ELSE <<>>]
         \* last keeps the steps that drop an envelope and the step that
         \* follows a drop
         /\ last' = IF \/ Malformed(env)
                       \/ (last.op = "listen" /\ last.proc = p
                                                /\ last.reply = "dropped")
                    THEN [NoCall EXCEPT
                            !.op = "listen", !.proc = p, !.t = env.target,
                            !.e = env.e, !.msg = env.raw, !.caught = r.exc,
                            !.attempted = r.attempted,
                            !.prevOp = IF last.op = "listen" /\ last.proc = p
                                       THEN last.reply ELSE "none",
                            !.reply = IF Malformed(env) THEN "dropped"
                                                        ELSE "dispatched"]
                    ELSE NoCall
  /\ UNCHANGED <<brokerUp, redis, nextEvent, sent, pending, acked, task>>
  /\ UNCHANGED regVars
  /\ UNCHANGED connVars
  /\ UNCHANGED coreVars

\* pubsub.listen() raises on the lost connection: log and return
ListenerStop(p) ==
  /\ listener[p] = "subscribed"
  /\ ~brokerUp
  /\ listener' = [listener EXCEPT ![p] = "stopped"]
  /\ inbox' = [inbox EXCEPT ![p] = <<>>]
  /\ UNCHANGED <<brokerUp, redis>>
  /\ last' = NoCall
  /\ UNCHANGED regVars
  /\ UNCHANGED connVars
  /\ UNCHANGED eventVars
  /\ UNCHANGED <<pending, acked, task>>
  /\ UNCHANGED coreVars

BrokerDown ==
  /\ brokerUp
  /\ brokerUp' = FALSE
  /\ UNCHANGED <<redis, listener, inbox>>
  /\ last' = NoCall
  /\ UNCHANGED regVars
  /\ UNCHANGED connVars
  /\ UNCHANGED eventVars
  /\ UNCHANGED <<pending, acked, task>>
  /\ UNCHANGED coreVars

BrokerUp ==
  /\ ~brokerUp
  /\ brokerUp' = TRUE
  /\ UNCHANGED <<redis, listener, inbox>>
  /\ last' = NoCall
  /\ UNCHANGED regVars
  /\ UNCHANGED connVars
  /\ UNCHANGED eventVars
  /\ UNCHANGED <<pending, acked, task>>
  /\ UNCHANGED coreVars

\* a producer on process p calls publish_via_redis(target, payload)
Publish(p, target, ok) ==
  /\ p \in Serving => listener[p] # "boot"
  /\ nextEvent <= MaxEvents
  /\ LET h == get_redis(redis[p], brokerUp)
         r == publish_via_redis(h, brokerUp, active_connections[p],
                                subscriptions[p], open, target, ok)
     IN  /\ redis' = [redis EXCEPT ![p] = h]
         /\ inbox' = [q \in Procs |->
                        IF r.enqueue /\ listener[q] = "subscribed"
                        THEN Append(inbox[q],
                                    [e |-> nextEvent, target |-> target,
                                     raw |-> "json"])
                        ELSE inbox[q]]
         /\ recv' = Deliver(recv, r.attempted, open, nextEvent)
         /\ last' = [NoCall EXCEPT
                       !.op = "publish", !.proc = p, !.t = target, !.ok = ok,
                       !.e = nextEvent, !.up = brokerUp, !.path = r.path,
                       !.caught = r.caught, !.raised = r.raised,
                       !.attempted = r.attempted,
                       !.delivered = {c \in r.attempted : open[c]}]
  /\ sent' = [sent EXCEPT ![nextEvent] = [proc |-> p, target |-> target]]
  /\ nextEvent' = nextEvent + 1
  /\ UNCHANGED <<brokerUp, listener, dispatched, pending, acked, task>>
  /\ UNCHANGED regVars
  /\ UNCHANGED connVars
  /\ UNCHANGED coreVars

\* The bridge between the server processes: connections of the main
\* endpoint come and go while producers publish and the broker fails.
Next ==
  \/ \E c \in Clients, p \in Serving, u \in Users :
       WsConnect(c, p, ValidToken(u), "main")
  \/ \E c \in Clients : WsWelcome(c)
  \/ \E c \in Clients : ClientClose(c)
  \/ \E c \in Clients : WsDisconnected(c)
  \/ \E p \in Serving : Startup(p)
  \/ \E p \in Serving : ListenerStart(p)
  \/ \E p \in Serving : ListenerStep(p)
  \/ \E p \in Serving : ListenerStop(p)
  \/ BrokerDown
  \/ BrokerUp
  \/ \E p \in Procs, target \in Targets, ok \in BOOLEAN : Publish(p, target, ok)

Spec == Init /\ [][Next]_vars

\* The endpoint handlers of the server processes, without producers.
EndpointNext ==
  \/ \E c \in Conns, p \in Serving, tok \in Tokens, k \in {"main", "proof"} :
       WsConnect(c, p, tok, k)
  \/ \E c \in Conns, p \in Serving, tok \in Tokens : WsReject(c, p, tok)
  \/ \E c \in Conns : WsWelcome(c)
  \/ \E c \in Conns : ClientClose(c)
  \/ \E c \in Conns, m \in ClientMsgs : WsReceive(c, m)
  \/ \E c \in Conns : WsReply(c)
  \/ \E c \in Conns : WsDisconnected(c)
  \/ \E p \in Serving : Startup(p)
  \/ \E p \in Serving : ListenerStart(p)

EndpointSpec == Init /\ [][EndpointNext]_vars

\* The endpoints up to and including their welcome message, for every kind
\* of credential: clients that connect, are turned away, or go away.
HandshakeNext ==
  \/ \E c \in Conns, p \in Serving, tok \in Tokens, k \in {"main", "proof"} :
       WsConnect(c, p, tok, k)
  \/ \E c \in Conns, p \in Serving, tok \in Tokens : WsReject(c, p, tok)
  \/ \E c \in Conns : WsWelcome(c)
  \/ \E c \in Conns : ClientClose(c)
  \/ \E c \in Conns : WsDisconnected(c)
  \/ \E p \in Serving : Startup(p)
  \/ \E p \in Serving : ListenerStart(p)

HandshakeSpec == Init /\ [][HandshakeNext]_vars

\* ------------------------------------------------- the server-side producers
\* What a producer of lines 112-192 does with the result r of the manager
\* call it makes: the event nextEvent goes out on the attempted channels.
\* No envelope is published, so sent is left alone.
Produce(p, op, u, t, ok, r) ==
  /\ listener[p] # "boot"
  /\ task = Idle
  /\ nextEvent <= MaxEvents
  /\ recv' = Deliver(recv, r.attempted, open, nextEvent)
  /\ last' = [SendRecord(p, op, u, t, ok, r) EXCEPT !.e = nextEvent,
                                                     !.path = "direct"]
  /\ nextEvent' = nextEvent + 1
  /\ UNCHANGED <<sent, dispatched, pending, acked, task>>
  /\ UNCHANGED regVars
  /\ UNCHANGED connVars
  /\ UNCHANGED brokerVars
  /\ UNCHANGED coreVars

\* publish_proof_update, publish_agent_update, publish_settlement_update,
\* publish_reward_notification: await manager.send_personal(user_id, ...)
ProducerPersonal(p, u, ok) ==
  Produce(p, "send_personal", u, <<>>, ok,
          send_personal(active_connections[p], open, u, ok))

\* publish_swarm_update: await manager.broadcast_to_topic("swarm:42", ...)
ProducerSwarm(p, ok) ==
  Produce(p, "broadcast_to_topic", <<>>, SwarmTopic, ok,
          broadcast_to_topic(active_connections[p], subscriptions[p], open,
                             SwarmTopic, ok))

\* publish_platform_announcement: await manager.broadcast_all(...)
ProducerAnnouncement(p, ok) ==
  Produce(p, "broadcast_all", <<>>, <<>>, ok,
          broadcast_all(active_connections[p], open, ok))

\* The producers of a deployment: the server-side publish_* functions and
\* the worker tasks that call publish_via_redis, with the listener running
\* and the broker reachable.
ProducerNext ==
  \/ \E c \in Clients, p \in Serving, u \in Users :
       WsConnect(c, p, ValidToken(u), "main")
  \/ \E c \in Clients : WsWelcome(c)
  \/ \E c \in Clients : ClientClose(c)
  \/ \E c \in Clients : WsDisconnected(c)
  \/ \E p \in Serving : Startup(p)
  \/ \E p \in Serving : ListenerStart(p)
  \/ \E p \in Serving : ListenerStep(p)
  \/ \E p \in Procs, target \in Targets, ok \in BOOLEAN : Publish(p, target, ok)
  \/ \E p \in Serving, u \in Users, ok \in BOOLEAN : ProducerPersonal(p, u, ok)
  \/ \E p \in Serving, ok \in BOOLEAN : ProducerSwarm(p, ok)
  \/ \E p \in Serving, ok \in BOOLEAN : ProducerAnnouncement(p, ok)

ProducerSpec == Init /\ [][ProducerNext]_vars

\* A session of the main endpoint: clients that subscribe and unsubscribe
\* while swarm updates are produced.
SessionMsgs ==
  {[action |-> a, topic |-> SwarmTopic] : a \in {"subscribe", "unsubscribe"}}

SessionNext ==
  \/ \E c \in Conns, p \in Serving, u \in Users :
       WsConnect(c, p, ValidToken(u), "main")
  \/ \E c \in Conns : WsWelcome(c)
  \/ \E c \in Conns : ClientClose(c)
  \/ \E c \in Conns, m \in SessionMsgs : WsReceive(c, m)
  \/ \E c \in Conns : WsReply(c)
  \/ \E c \in Conns : WsDisconnected(c)
  \/ \E p \in Serving : Startup(p)
  \/ \E p \in Serving : ListenerStart(p)
  \/ \E p \in Serving : ProducerSwarm(p, TRUE)

SessionSpec == Init /\ [][SessionNext]_vars

\* The greeting of the main endpoint: connections of one identity that
\* connect, subscribe and go away while platform announcements are produced.
GreetingNext ==
  \/ \E c \in Conns, p \in Serving :
       WsConnect(c, p, ValidToken(<<"alice">>), "main")
  \/ \E c \in Conns : WsWelcome(c)
  \/ \E c \in Conns : ClientClose(c)
  \/ \E c \in Conns :
       WsReceive(c, [action |-> "subscribe", topic |-> SwarmTopic])
  \/ \E c \in Conns : WsReply(c)
  \/ \E c \in Conns : WsDisconnected(c)
  \/ \E p \in Serving : Startup(p)
  \/ \E p \in Serving : ListenerStart(p)
  \/ \E p \in Serving : ProducerAnnouncement(p, TRUE)

GreetingSpec == Init /\ [][GreetingNext]_vars


\* ======================================================= claims (ApiSpec)
RegisteredConns(ac, u) == Range(ConnsOf(ac, u))

\* C1: after any sequence of connect/disconnect calls every identity key of
\* the identity-to-connections mapping maps to a non-empty list.
C1_NoEmptyList ==
  \A p \in Procs : \A u \in DOMAIN active_connections[p] :
    active_connections[p][u] # <<>>

\* a disconnect just removed the last connection of an identity: key gone
C1_Witness ==
  /\ last.op = "disconnect"
  /\ last.preConns = <<last.ws>>
  /\ last.u \notin DOMAIN active_connections[last.proc]

\* C2: after disconnect(c, u) where c was u's only connection, u is in no
\* topic's subscriber set.
C2_FullDisconnectPrunes ==
  (last.op = "disconnect" /\ last.preConns = <<last.ws>>)
    => \A t \in DOMAIN subscriptions[last.proc] :
         last.u \notin subscriptions[last.proc][t]

\* the identity was subscribed to a client topic before its last connection went
C2_Witness ==
  /\ last.op = "disconnect"
  /\ last.preConns = <<last.ws>>
  /\ SwarmTopic \in last.preTopics

\* C3 (as claimed): disconnecting one connection of an identity that keeps
\* another connection leaves the identity's topic subscriptions unchanged.
C3_PartialDisconnectKeepsTopics ==
  (/\ last.op = "disconnect"
   /\ last.ws \in Range(last.preConns)
   /\ last.u \in DOMAIN active_connections[last.proc])
    => TopicsOf(subscriptions[last.proc], last.u) = last.preTopics

\* C5: broadcast_to_topic(t, e) calls send on exactly the registered
\* connections of the identities subscribed to t; an unknown or empty topic
\* gives no send and no error.
TopicRecipients(p, t) ==
  {c \in Conns : \E u \in Users :
      /\ t \in DOMAIN subscriptions[p]
      /\ u \in subscriptions[p][t]
      /\ c \in RegisteredConns(active_connections[p], u)}

Recipients(c) ==
  CASE c.op = "send_personal" ->
         RegisteredConns(active_connections[c.proc], c.u)
    [] c.op = "broadcast_to_topic" -> TopicRecipients(c.proc, c.t)
    [] c.op = "broadcast_all" ->
         UNION {RegisteredConns(active_connections[c.proc], u) : u \in Users}
    [] OTHER -> {}

C4_EndedHandlerUnregistered ==
  \A c \in Conns :
    pc[c] \in {"done", "crashed"}
      => c \notin RegisteredConns(active_connections[home[c]], ident[c])

\* ========================================================= claims (Spec)
DirectCall(c) ==
  Dispatch(active_connections[c.proc], subscriptions[c.proc], open, c.t, c.ok)

\* C7 (as claimed): a publish made while the broker is unavailable sends to
\* the same local connections as the direct router call for its target.
C7_UnavailableBrokerEqualsDirect ==
  (last.op = "publish" /\ ~last.up)
    => last.attempted = DirectCall(last).attempted

\* C8: with the broker healthy a publish makes no local send of its own, and
\* no connection ever receives a published event twice.
C8_NoDoubleDelivery ==
  /\ (last.op = "publish" /\ last.up)
       => (last.path = "broker" /\ last.attempted = {})
  /\ \A c \in Conns : \A e \in Events : recv[c][e] <= 1

\* an event published on a process came back through that process's own
\* listener and reached one of its connections, once
C8_Witness ==
  \E c \in Conns : \E e \in Events :
    /\ home[c] \in Procs
    /\ sent[e].proc = home[c]
    /\ e \in dispatched[home[c]]
    /\ recv[c][e] = 1

\* C10: publish_via_redis never raises to its caller.
C10_PublishNeverRaises ==
  last.op = "publish" => ~last.raised

\* the direct-delivery fallback failed inside a publish and was absorbed
C10_Witness ==
  /\ last.op = "publish"
  /\ last.path = "fallback"
  /\ last.caught = "fallback"

\* ------------------------------------------------------------ HealthySpec
\* The bridge while the broker stays reachable; the event loop runs the
\* listener task whenever a message is waiting for it.
HealthyNext ==
  \/ \E c \in Clients, p \in Serving, u \in Users :
       WsConnect(c, p, ValidToken(u), "main")
  \/ \E c \in Clients : WsWelcome(c)
  \/ \E c \in Clients : ClientClose(c)
  \/ \E c \in Clients : WsDisconnected(c)
  \/ \E p \in Serving : Startup(p)
  \/ \E p \in Serving : ListenerStart(p)
  \/ \E p \in Serving : ListenerStep(p)
  \/ \E p \in Procs, target \in Targets, ok \in BOOLEAN : Publish(p, target, ok)

HealthySpec ==
  Init /\ [][HealthyNext]_vars /\ \A p \in Serving : WF_vars(ListenerStep(p))

Bob == <<"bob">>
ToBob == <<"user", "bob">>

C12_SecondUnregisterNoOp ==
  (/\ last.op = "disconnect"
   /\ ident[last.ws] = last.u
   /\ last.ws \notin Range(last.preConns)) =>
    /\ ~last.raised
    /\ active_connections[last.proc] = last.preAc
    /\ subscriptions[last.proc] = last.preSubs

C14_Idempotent ==
  /\ (last.op \in {"subscribe", "unsubscribe"} /\ last.prevOp = last.op) =>
       \A t \in Topics :
         subscribers_of(subscriptions[last.proc], t)
           = subscribers_of(last.preSubs, t)
  /\ last.op = "subscribe" =>
       last.u \in subscribers_of(subscriptions[last.proc], last.t)
  /\ last.op = "unsubscribe" =>
       last.u \notin subscribers_of(subscriptions[last.proc], last.t)

\* subscribe twice in a row for an identity without any connection, on a
\* topic that already had a subscriber
C14_Witness ==
  /\ last.op = "subscribe"
  /\ last.prevOp = "subscribe"
  /\ last.u \notin DOMAIN active_connections[last.proc]
  /\ last.u \in subscribers_of(subscriptions[last.proc], last.t)
  /\ last.preSet \ {last.u} # {}

\* ================================================== claims (EndpointSpec)
\* the credentials for which verification yields no identity
NoIdentity(tok) ==
  \/ tok.form \in {"malformed", "badsig", "expired"}
  \/ tok.sub = <<>>
  \/ tok.account \in {"none", "inactive"}

\* C11: a connection attempt whose credential yields no identity is closed
\* with code 4001 before any registration or message exchange; the
\* identity-to-connections and topic-to-subscribers mappings of the process
\* are what they were before the attempt.
C11_RejectedBeforeRegistration ==
  (last.op \in {"ws_connect", "ws_reject"} /\ NoIdentity(last.tok)) =>
    /\ last.op = "ws_reject"
    /\ last.code = 4001
    /\ pc[last.ws] = "rejected"
    /\ ~open[last.ws]
    /\ active_connections[last.proc] = last.preAc
    /\ subscriptions[last.proc] = last.preSubs
    /\ \A u \in Users :
         last.ws \notin RegisteredConns(active_connections[last.proc], u)
    /\ \A e \in Events : recv[last.ws][e] = 0

\* an inactive account is turned away while another client is registered
C11_Witness ==
  /\ last.op = "ws_reject"
  /\ last.tok.account = "inactive"
  /\ last.code = 4001
  /\ active_connections[last.proc] # EmptyDict

\* C15: a malformed message (not JSON, not an object, subscribe/unsubscribe
\* without a topic) or a message with an unknown action, received on the
\* main endpoint, is answered with an error-typed message, and the
\* connection stays open and registered.
C15_MalformedAnsweredWithError ==
  (/\ last.op = "receive"
   /\ kind[last.ws] = "main"
   /\ \/ last.msg \in {"not-json", "not-object", "bogus"}
      \/ last.msg \in {"subscribe", "unsubscribe"} /\ last.t = <<>>) =>
    /\ last.reply = "error"
    /\ pending[last.ws].type = "error"
    /\ pc[last.ws] = "reply"
    /\ open[last.ws]
    /\ last.ws \in RegisteredConns(active_connections[last.proc], last.u)

\* ================================================== claims (ProducerSpec)
\* C16: every event of a producer enters through publish_via_redis: an
\* event that reached a connection has been published to the bridge.
C16_ProducersUseBridge ==
  \A c \in Conns, e \in Events : recv[c][e] > 0 => sent[e] # Unsent

\* ================================================== claims (GreetingSpec)
DefaultList == <<<<"proofs">>, <<"agents">>, <<"settlements">>, <<"platform">>>>

\* right after /ws accepted a valid credential of u, u is subscribed to the
\* four default topics and to whatever it was subscribed to before
DefaultsGranted ==
  (last.op = "ws_connect" /\ kind[last.ws] = "main") =>
    /\ TopicsOf(subscriptions[last.proc], last.u)
         = DefaultTopics \cup last.preTopics
    /\ Cardinality(DefaultTopics) = 4

\* C17 as stated: after a client connects with a valid credential of u, u
\* is subscribed to exactly the four default topics (plus any it held
\* before), and the first message the client receives is a connected-typed
\* message whose subscriptions list is [proofs, agents, settlements,
\* platform]: nothing reaches the client while that message is still to be
\* sent.
C17_ConnectedIsFirstMessage ==
  /\ DefaultsGranted
  /\ \A c \in Conns :
       (pc[c] = "welcome" /\ kind[c] = "main") =>
         /\ pending[c] = [type |-> "connected", subscriptions |-> DefaultList]
         /\ \A e \in Events : recv[c][e] = 0

\* C17 amended: after a client connects with a valid credential of u, u is
\* subscribed to exactly the four default topics (plus any it held before),
\* and the first message the endpoint handler sends to the client is a
\* connected-typed message whose subscriptions list is [proofs, agents,
\* settlements, platform]; the only message the client can receive before
\* it is an event that a producer sent to the already registered connection.
C17_ConnectedIsFirstFromHandler ==
  /\ DefaultsGranted
  /\ \A c \in Conns :
       (pc[c] = "welcome" /\ kind[c] = "main") =>
         /\ pending[c] = [type |-> "connected", subscriptions |-> DefaultList]
         /\ acked[c] = {}

\* a client of the main endpoint has got its connected message, nothing else
\* reached it before, and its identity holds swarm:42 besides the defaults
C17_Witness ==
  \E c \in Conns :
    /\ pc[c] = "loop" /\ kind[c] = "main" /\ open[c]
    /\ \A e \in Events : recv[c][e] = 0
    /\ TopicsOf(subscriptions[home[c]], ident[c])
         = DefaultTopics \cup {SwarmTopic}

\* =================================================== claims (SessionSpec)
\* C18: a connected client that sends a subscribe action for topic T gets a
\* subscribed-typed message carrying T, and every topic broadcast for T
\* made after that reply and before the client unsubscribes or disconnects
\* is delivered to the client's connection.
C18_SubscribedThenDelivered ==
  /\ (last.op = "receive" /\ last.msg = "subscribe" /\ last.t # <<>>) =>
       /\ pending[last.ws].type = "subscribed"
       /\ pending[last.ws].topic = last.t
  /\ (last.op = "broadcast_to_topic" /\ last.ok) =>
       \A c \in Conns :
         (last.t \in acked[c] /\ home[c] = last.proc) =>
           c \in last.delivered

\* ====================================================== claims (SendSpec)
\* C19: a send_personal, broadcast_to_topic or broadcast_all call that was
\* suspended in its sends while other tasks changed the registry returns
\* without raising to its caller.
C19_SendNeverRaises ==
  last.path = "stepwise" => ~last.raised

\* C20: a connection of u that is registered (and whose channel is open)
\* from the beginning to the end of a send_personal(u, e) call has received
\* e when the call returns, whatever was registered or unregistered for u
\* meanwhile.
C20_StayingSiblingReceives ==
  (last.path = "stepwise" /\ last.op = "send_personal") =>
    \A c \in last.stayed : open[c] => recv[c][last.e] > 0
\* ------------------------------------------------------------ ListenerSpec
\* what another publisher on the channel can send: data that is not JSON,
\* an object without target (or with a null target), an unknown prefix
Junk == {[e |-> 0, target |-> <<>>, raw |-> "not-json"],
         [e |-> 0, target |-> <<>>, raw |-> "json"],
         [e |-> 0, target |-> <<"group", "x">>, raw |-> "json"]}

\* a message that publish_via_redis did not build arrives on
\* "verifiai:ws:broadcast": the broker pushes it to every subscribed
\* listener.  One such message is in flight at a time.
Inject(m) ==
  /\ brokerUp
  /\ \E q \in Procs : listener[q] = "subscribed"
  /\ \A q \in Procs : \A i \in 1..Len(inbox[q]) : inbox[q][i].e \in Events
  /\ inbox' = [q \in Procs |->
                 IF listener[q] = "subscribed" THEN Append(inbox[q], m)
                                               ELSE inbox[q]]
  /\ last' = NoCall
  /\ UNCHANGED <<brokerUp, redis, listener, nextEvent, sent, recv, dispatched,
                 pending, acked, task>>
  /\ UNCHANGED regVars
  /\ UNCHANGED connVars
  /\ UNCHANGED coreVars

\* The listener of a server process while the broker stays reachable and
\* the channel carries envelopes of the bridge and foreign messages; the
\* clients are connections of bob.
ListenerNext ==
  \/ \E c \in Clients, p \in Serving :
       WsConnect(c, p, ValidToken(<<"bob">>), "main")
  \/ \E c \in Clients : WsWelcome(c)
  \/ \E c \in Clients : ClientClose(c)
  \/ \E c \in Clients : WsDisconnected(c)
  \/ \E p \in Serving : Startup(p)
  \/ \E p \in Serving : ListenerStart(p)
  \/ \E p \in Serving : ListenerStep(p)
  \/ \E p \in Procs, target \in Targets : Publish(p, target, TRUE)
  \/ \E m \in Junk : Inject(m)

ListenerSpec == Init /\ [][ListenerNext]_vars

\* ================================================= claims (ListenerSpec)
\* C23: the listener drops a malformed envelope (data that is not JSON,
\* target missing or null, unknown prefix) without any delivery and goes on
\* with the loop; the well-formed envelope that follows is dispatched to the
\* router like any other.
C23_MalformedDropped ==
  /\ (last.op = "listen" /\ last.reply = "dropped") =>
       /\ last.attempted = {}
       /\ listener[last.proc] = "subscribed"
  /\ (last.op = "listen" /\ last.prevOp = "dropped"
                         /\ last.reply = "dispatched") =>
       /\ last.attempted = DirectCall(last).attempted
       /\ last.e \in dispatched[last.proc]
       /\ listener[last.proc] = "subscribed"

\* after a dropped envelope the listener delivered the next event to a
\* connection
C23_Witness ==
  /\ last.op = "listen"
  /\ last.prevOp = "dropped"
  /\ last.reply = "dispatched"
  /\ \E c \in last.attempted : recv[c][last.e] = 1

\* ================================================= claims (Spec, listener)
\* C21: whenever a publish on a server process takes the broker path and
\* hands its envelope to the broker, that process's own listener is
\* subscribed to the channel (so that the event comes back to the local
\* connections), also when the broker was unreachable at startup and became
\* reachable later.
C21_BrokerPathHasListener ==
  (/\ last.op = "publish" /\ last.proc \in Serving
   /\ last.path = "broker" /\ last.caught = "none"
   /\ listener[last.proc] # "starting")
    => listener[last.proc] = "subscribed"

\* C22: a publish whose broker handle exists but whose redis.publish call
\* fails still delivers the event to the matching local connections, as the
\* direct router call for its target would.
C22_FailedPublishFallsBack ==
  (last.op = "publish" /\ last.caught = "publish") =>
    last.delivered = {c \in DirectCall(last).attempted : open[c]}

\* The bridge under broker outages with one identity's clients and sends
\* that succeed: what the listener task does does not depend on either.
OutageNext ==
  \/ \E c \in Clients, p \in Serving :
       WsConnect(c, p, ValidToken(<<"bob">>), "main")
  \/ \E c \in Clients : WsWelcome(c)
  \/ \E c \in Clients : ClientClose(c)
  \/ \E c \in Clients : WsDisconnected(c)
  \/ \E p \in Serving : Startup(p)
  \/ \E p \in Serving : ListenerStart(p)
  \/ \E p \in Serving : ListenerStep(p)
  \/ \E p \in Serving : ListenerStop(p)
  \/ BrokerDown
  \/ BrokerUp
  \/ \E p \in Procs, target \in Targets : Publish(p, target, TRUE)

OutageSpec == Init /\ [][OutageNext]_vars

\* C24: a listener that finds the broker unavailable when it starts, or
\* loses the broker connection while subscribed, ends: it does not start
\* again, and once ended it stays ended and takes nothing from the channel
\* any more.
C24_ListenerEndsForGood ==
  [][\A p \in Procs :
       /\ (listener[p] = "starting" /\ ~brokerUp /\ listener'[p] # "starting")
            => listener'[p] = "stopped"
       /\ (listener[p] = "subscribed" /\ listener'[p] # "subscribed")
            => (listener'[p] = "stopped" /\ ~brokerUp)
       /\ listener[p] = "stopped"
            => (listener'[p] = "stopped" /\ inbox'[p] = <<>>)]_vars

\* a listener that had dispatched an event ended when the broker went away,
\* and the broker is back
C24_Witness ==
  \E p \in Procs :
    /\ listener[p] = "stopped"
    /\ dispatched[p] # {}
    /\ inbox[p] = <<>>
    /\ brokerUp

\* ============================================ claims (EndpointSpec, lifecycle)
\* C25: a connection is in the registry only after its authentication
\* succeeded, under the identity it was authenticated as; a connection that
\* was rejected, or whose handler has ended, is in no list of the registry.
C25_LifecycleTerminal ==
  \A c \in Conns : \A p \in Procs : \A u \in Users :
    c \in RegisteredConns(active_connections[p], u) =>
      /\ pc[c] \in {"welcome", "loop", "reply"}
      /\ ident[c] = u
      /\ home[c] = p

\* --------------------------------------------------------------- RedisSpec
\* get_redis() of core/redis.py step by step: after lifespan() has run, the
\* tasks of the server's event loop call it while the broker comes and goes.

\* get_redis() up to its first suspension: a null handle sends the caller
\* into init_redis(), which stores the new Redis object and awaits its
\* ping; any other value is returned as it is
GetRedis(p, t) ==
  /\ listener[p] # "boot"
  /\ callers[t].pc = "idle"
  /\ IF redis[p] = None
     THEN /\ redis' = [redis EXCEPT ![p] = Unpinged]
          /\ callers' = [callers EXCEPT ![t] = [pc |-> "ping", got |-> None]]
     ELSE /\ redis' = redis
          /\ callers' = [callers EXCEPT ![t] = [pc |-> "done",
                                                got |-> redis[p]]]
  /\ last' = [NoCall EXCEPT !.op = "get_redis", !.proc = p, !.ws = t,
                            !.up = brokerUp]
  /\ UNCHANGED <<brokerUp, listener, inbox>>
  /\ UNCHANGED regVars
  /\ UNCHANGED connVars
  /\ UNCHANGED eventVars
  /\ UNCHANGED <<pending, acked, task, settlement, lock, limiter>>

\* await _redis.ping() is over: init_redis() returns, or its except clause
\* sets _redis = None; get_redis() then returns the global _redis
PingDone(p, t) ==
  /\ callers[t].pc = "ping"
  /\ LET r == IF ~brokerUp THEN None
              ELSE IF redis[p] = Unpinged THEN Handle
              ELSE redis[p]
     IN  /\ redis' = [redis EXCEPT ![p] = r]
         /\ callers' = [callers EXCEPT ![t] = [pc |-> "done", got |-> r]]
  /\ last' = [NoCall EXCEPT !.op = "ping", !.proc = p, !.ws = t,
                            !.up = brokerUp]
  /\ UNCHANGED <<brokerUp, listener, inbox>>
  /\ UNCHANGED regVars
  /\ UNCHANGED connVars
  /\ UNCHANGED eventVars
  /\ UNCHANGED <<pending, acked, task, settlement, lock, limiter>>

\* the caller is done with the handle; the task may call get_redis() again
CallerDone(t) ==
  /\ callers[t].pc = "done"
  /\ callers' = [callers EXCEPT ![t] = NoCaller]
  /\ last' = NoCall
  /\ UNCHANGED brokerVars
  /\ UNCHANGED regVars
  /\ UNCHANGED connVars
  /\ UNCHANGED eventVars
  /\ UNCHANGED <<pending, acked, task, settlement, lock, limiter>>

RedisNext ==
  \/ \E p \in Serving : Startup(p)
  \/ \E p \in Serving : ListenerStart(p)
  \/ \E p \in Serving, t \in Tasks : GetRedis(p, t)
  \/ \E p \in Serving, t \in Tasks : PingDone(p, t)
  \/ \E t \in Tasks : CallerDone(t)
  \/ BrokerDown
  \/ BrokerUp

RedisSpec == Init /\ [][RedisNext]_vars

\* ==================================================== claims (RedisSpec)
\* C26: get_redis() returns to its caller either no handle or a handle whose
\* ping has completed successfully, also while another task is suspended in
\* init_redis(); and after a failed initialisation the shared handle is
\* null.
C26_OnlyVerifiedHandles ==
  /\ \A t \in Tasks :
       callers[t].pc = "done" => callers[t].got \in {None, Handle}
  /\ (last.op = "ping" /\ ~last.up) => redis[last.proc] = None

\* ============================================== settlements (SettlementSpec)
\* One settlement row.  The API routes run load, check, assign, commit in
\* one step; the worker tasks are split at their awaits between the load
\* and the last commit.  status "deleted" stands for the row being gone.
MaxPublished == 2
max_retries == 3

\* a commit that writes the status attribute of the loaded object
Commit(st, new) ==
  [st EXCEPT !.status = new,
             !.everCompleted = @ \/ new = "completed"]

ApiReply(name, c) == [NoCall EXCEPT !.op = name, !.code = c]

SettlementFrame ==
  /\ UNCHANGED brokerVars
  /\ UNCHANGED regVars
  /\ UNCHANGED connVars
  /\ UNCHANGED eventVars
  /\ UNCHANGED <<pending, acked, task, callers, lock, limiter>>

\* PUT /settlements/{id}: only PENDING and DRAFT rows; status untouched
update_settlement ==
  /\ settlement.status # "deleted"
  /\ settlement' = settlement
  /\ last' = ApiReply("update",
                      IF settlement.status \in {"pending", "draft"}
                      THEN 200 ELSE 400)
  /\ SettlementFrame

\* POST /settlements/{id}/submit-proof: no check of the current status
submit_proof_to_settlement(all) ==
  /\ settlement.status # "deleted"
  /\ settlement' = Commit(settlement, IF all THEN "ready" ELSE "processing")
  /\ last' = ApiReply("submit_proof", 200)
  /\ SettlementFrame

\* POST /settlements/{id}/execute
execute_settlement ==
  /\ settlement.status # "deleted"
  /\ IF settlement.status # "ready"
     THEN /\ settlement' = settlement
          /\ last' = ApiReply("execute", 400)
     ELSE /\ settlement' = Commit(settlement, "completed")
          /\ last' = ApiReply("execute", 200)
  /\ SettlementFrame

\* POST /settlements/{id}/dispute
dispute_settlement ==
  /\ settlement.status # "deleted"
  /\ IF settlement.status = "completed"
     THEN /\ settlement' = settlement
          /\ last' = ApiReply("dispute", 400)
     ELSE /\ settlement' = Commit(settlement, "failed")
          /\ last' = ApiReply("dispute", 200)
  /\ SettlementFrame

\* DELETE /settlements/{id}
delete_settlement ==
  /\ settlement.status # "deleted"
  /\ IF settlement.status \in {"completed", "processing"}
     THEN /\ settlement' = settlement
          /\ last' = ApiReply("delete", 400)
     ELSE /\ settlement' = [settlement EXCEPT !.status = "deleted"]
          /\ last' = ApiReply("delete", 204)
  /\ SettlementFrame

FreeJobs == {j \in Tasks : settlement.jobs[j].pc = "free"}
Lowest(S) == CHOOSE j \in S : \A k \in S : j <= k

Enqueue(st, name) ==
  [st EXCEPT !.jobs[Lowest(FreeJobs)] =
               [kind |-> name, pc |-> "queued", tries |-> 0]]

\* the beat task: every READY row that is due gets a process_settlement
\* message; the row itself is not touched
process_pending_settlements(due) ==
  /\ FreeJobs # {}
  /\ settlement' = IF settlement.status = "ready" /\ due
                   THEN Enqueue(settlement, "process")
                   ELSE settlement
  /\ last' = [NoCall EXCEPT !.op = "process_pending"]
  /\ SettlementFrame

\* execute_settlement_on_chain.delay(id)
EnqueueExecute ==
  /\ FreeJobs # {}
  /\ settlement.status # "deleted"
  /\ settlement' = Enqueue(settlement, "execute")
  /\ last' = [NoCall EXCEPT !.op = "enqueue_execute"]
  /\ SettlementFrame

\* process_settlement up to its first commit: session.get, then
\* status = PROCESSING whatever the status was
ProcessStart(j) ==
  /\ settlement.jobs[j].kind = "process"
  /\ settlement.jobs[j].pc = "queued"
  /\ settlement' =
       IF settlement.status = "deleted"
       THEN [settlement EXCEPT !.jobs[j] = NoJob]
       ELSE [Commit(settlement, "processing") EXCEPT !.jobs[j].pc = "running"]
  /\ last' = [NoCall EXCEPT !.op = "process_start", !.ws = j]
  /\ SettlementFrame

\* process_settlement after the sleeps: PENDING when a party has not signed,
\* else COMPLETED, one more commit and publish_settlement_update
ProcessFinish(j, signed) ==
  /\ settlement.jobs[j].kind = "process"
  /\ settlement.jobs[j].pc = "running"
  /\ settlement.status # "deleted"
  /\ signed => settlement.published < MaxPublished
  /\ settlement' =
       IF signed
       THEN [Commit(settlement, "completed") EXCEPT
               !.jobs[j] = NoJob, !.published = @ + 1]
       ELSE [Commit(settlement, "pending") EXCEPT !.jobs[j] = NoJob]
  /\ last' = [NoCall EXCEPT !.op = "process_finish", !.ws = j,
                            !.ok = signed]
  /\ SettlementFrame

\* process_settlement's except clause: FAILED, commit, self.retry; once
\* the retries are used up the task is dropped
ProcessFail(j) ==
  /\ settlement.jobs[j].kind = "process"
  /\ settlement.jobs[j].pc = "running"
  /\ settlement.status # "deleted"
  /\ settlement' =
       IF settlement.jobs[j].tries < max_retries
       THEN [Commit(settlement, "failed") EXCEPT
               !.jobs[j].pc = "queued", !.jobs[j].tries = @ + 1]
       ELSE [Commit(settlement, "failed") EXCEPT !.jobs[j] = NoJob]
  /\ last' = [NoCall EXCEPT !.op = "process_fail", !.ws = j, !.raised = TRUE]
  /\ SettlementFrame

\* execute_settlement_on_chain up to its sleep: the row must be READY
ExecuteStart(j) ==
  /\ settlement.jobs[j].kind = "execute"
  /\ settlement.jobs[j].pc = "queued"
  /\ settlement' =
       IF settlement.status = "ready"
       THEN [settlement EXCEPT !.jobs[j].pc = "running"]
       ELSE [settlement EXCEPT !.jobs[j] = NoJob]
  /\ last' = [NoCall EXCEPT !.op = "execute_start", !.ws = j]
  /\ SettlementFrame

\* execute_settlement_on_chain after the sleep: COMPLETED, commit
ExecuteFinish(j) ==
  /\ settlement.jobs[j].kind = "execute"
  /\ settlement.jobs[j].pc = "running"
  /\ settlement' =
       IF settlement.status = "deleted"
       THEN [settlement EXCEPT !.jobs[j] = NoJob]
       ELSE [Commit(settlement, "completed") EXCEPT !.jobs[j] = NoJob]
  /\ last' = [NoCall EXCEPT !.op = "execute_finish", !.ws = j]
  /\ SettlementFrame

SettlementNext ==
  \/ update_settlement
  \/ \E all \in BOOLEAN : submit_proof_to_settlement(all)
  \/ execute_settlement
  \/ dispute_settlement
  \/ delete_settlement
  \/ \E due \in BOOLEAN : process_pending_settlements(due)
  \/ EnqueueExecute
  \/ \E j \in Tasks : ProcessStart(j)
  \/ \E j \in Tasks, signed \in BOOLEAN : ProcessFinish(j, signed)
  \/ \E j \in Tasks : ProcessFail(j)
  \/ \E j \in Tasks : ExecuteStart(j)
  \/ \E j \in Tasks : ExecuteFinish(j)

SettlementSpec == Init /\ [][SettlementNext]_vars

\* =============================================== claims (SettlementSpec)
\* C27: a settlement that has reached COMPLETED keeps that status: no API
\* operation and no worker task changes it afterwards.
C27_CompletedIsFinal ==
  settlement.everCompleted => settlement.status = "completed"

ProcessJobs ==
  {j \in Tasks : settlement.jobs[j].kind = "process"
                 /\ settlement.jobs[j].pc \in {"queued", "running"}}

\* C28: at most one process_settlement task is queued or running for a
\* settlement at any time, and its completion is published at most once.
C28_OneProcessingTask ==
  /\ Cardinality(ProcessJobs) <= 1
  /\ settlement.published <= 1

\* ===================================================== locking (LockSpec)
\* One lock name used by the tasks of the serving process.  lock.key is the
\* value of the Redis key "lock:<name>" (0: no key); a task's token stands
\* for the uuid4 of its DistributedLock object.  The key's expiry
\* (ex=timeout) is not modelled: the tasks leave the lock before it.
LockProc == "P2"

\* DistributedLock.acquire(): result, token and key afterwards
acquire(h, up, key, t) ==
  IF h = None THEN [result |-> TRUE, token |-> 0, key |-> key]
  ELSE IF ~up THEN [result |-> FALSE, token |-> t, key |-> key]
  ELSE IF key = 0 THEN [result |-> TRUE, token |-> t, key |-> t]
  ELSE [result |-> FALSE, token |-> t, key |-> key]

\* DistributedLock.release(): result and key afterwards
release(h, up, key, token) ==
  IF h = None \/ token = 0 THEN [result |-> TRUE, key |-> key]
  ELSE IF ~up THEN [result |-> FALSE, key |-> key]
  ELSE IF key = token THEN [result |-> TRUE, key |-> 0]
  ELSE [result |-> FALSE, key |-> key]

LockFrame ==
  /\ UNCHANGED <<brokerUp, listener, inbox>>
  /\ UNCHANGED regVars
  /\ UNCHANGED connVars
  /\ UNCHANGED eventVars
  /\ UNCHANGED <<pending, acked, task, callers, settlement, limiter>>

\* "async with DistributedLock(name):" __aenter__ awaits acquire() and
\* returns self; the body runs next
LockEnter(t) ==
  /\ listener[LockProc] # "boot"
  /\ lock.users[t].pc = "idle"
  /\ LET h == get_redis(redis[LockProc], brokerUp)
         r == acquire(h, brokerUp, lock.key, t)
     IN  /\ redis' = [redis EXCEPT ![LockProc] = h]
         /\ lock' = [key |-> r.key,
                     users |-> [lock.users EXCEPT ![t] =
                                  [pc |-> "body", token |-> r.token,
                                   acquired |-> r.result]]]
         /\ last' = [NoCall EXCEPT !.op = "lock_enter", !.ws = t,
                                   !.ok = r.result, !.e = lock.key]
  /\ LockFrame

\* a direct call of acquire() whose caller goes on only when it returned
\* True
LockAcquire(t) ==
  /\ listener[LockProc] # "boot"
  /\ lock.users[t].pc = "idle"
  /\ LET h == get_redis(redis[LockProc], brokerUp)
         r == acquire(h, brokerUp, lock.key, t)
     IN  /\ redis' = [redis EXCEPT ![LockProc] = h]
         /\ lock' = [key |-> r.key,
                     users |-> [lock.users EXCEPT ![t] =
                                  [pc |-> IF r.result THEN "held" ELSE "refused",
                                   token |-> r.token,
                                   acquired |-> r.result]]]
         /\ last' = [NoCall EXCEPT !.op = "lock_acquire", !.ws = t,
                                   !.ok = r.result, !.e = lock.key]
  /\ LockFrame

\* __aexit__ at the end of the body, or a direct call of release(), also by
\* a task whose acquire() returned False
LockRelease(t) ==
  /\ lock.users[t].pc \in {"body", "held", "refused"}
  /\ LET h == get_redis(redis[LockProc], brokerUp)
         r == release(h, brokerUp, lock.key, lock.users[t].token)
     IN  /\ redis' = [redis EXCEPT ![LockProc] = h]
         /\ lock' = [key |-> r.key,
                     users |-> [lock.users EXCEPT ![t] = NoLockUser]]
         /\ last' = [NoCall EXCEPT !.op = "lock_release", !.ws = t,
                                   !.ok = r.result, !.e = lock.key]
  /\ LockFrame

LockNext ==
  \/ Startup(LockProc)
  \/ \E t \in Tasks : LockEnter(t)
  \/ \E t \in Tasks : LockAcquire(t)
  \/ \E t \in Tasks : LockRelease(t)
  \/ BrokerDown
  \/ BrokerUp

LockSpec == Init /\ [][LockNext]_vars

\* tasks in the body of the "async with" whose acquire() went to the broker
InBody == {t \in Tasks : lock.users[t].pc = "body" /\ lock.users[t].token # 0}

\* ===================================================== claims (LockSpec)
\* C29: of the tasks that used the broker, at most one is inside the body of
\* "async with DistributedLock(name)" at a time and each of them is there
\* because its acquire() succeeded; a release by a task that does not own
\* the key leaves the owner's key in place.
C29_MutualExclusion ==
  /\ Cardinality(InBody) <= 1
  /\ \A t \in InBody : lock.users[t].acquired
  /\ (last.op = "lock_release" /\ last.e \notin {0, last.ws})
       => lock.key = last.e

\* ============================================== rate limiting (LimiterSpec)
\* One identifier in one time window, i.e. one key
\* "ratelimit:<identifier>:<window>".  limiter.count is the key's value,
\* limiter.expiry whether its expiry was set, limiter.granted how many
\* calls that got their count from the broker returned allowed = True.
LimitProc == "P2"
MaxCount == MaxRequests + 1

Max(a, b) == IF a >= b THEN a ELSE b

\* a limit that lets one request too many through
is_allowed_lenient(count, max) ==
  [allowed |-> count <= max + 1, remaining |-> Max(0, max - count)]

\* is_allowed(): allowed and remaining for the count that INCR returned
is_allowed_result(count, max) ==
  [allowed |-> count <= max, remaining |-> Max(0, max - count)]

\* is_allowed() without a handle, or its except clause
FailOpen(max) ==
  [pc |-> "done", count |-> 0, allowed |-> TRUE, remaining |-> max,
   failed |-> TRUE]

LimiterFrame ==
  /\ UNCHANGED <<brokerUp, listener, inbox>>
  /\ UNCHANGED regVars
  /\ UNCHANGED connVars
  /\ UNCHANGED eventVars
  /\ UNCHANGED <<pending, acked, task, callers, settlement, lock>>

\* is_allowed() up to its first broker command: get_redis()
LimitCall(t) ==
  /\ listener[LimitProc] # "boot"
  /\ limiter.calls[t].pc = "idle"
  /\ LET h == get_redis(redis[LimitProc], brokerUp)
     IN  /\ redis' = [redis EXCEPT ![LimitProc] = h]
         /\ limiter' = [limiter EXCEPT !.calls[t] =
                          IF h = None THEN FailOpen(MaxRequests)
                          ELSE [NoLimitCall EXCEPT !.pc = "incr"]]
  /\ last' = NoCall
  /\ LimiterFrame

\* count = await redis.incr(key)
LimitIncr(t) ==
  /\ limiter.calls[t].pc = "incr"
  /\ limiter.count < MaxCount
  /\ limiter' =
       IF ~brokerUp
       THEN [limiter EXCEPT !.calls[t] = FailOpen(MaxRequests)]
       ELSE [limiter EXCEPT
               !.count = @ + 1,
               !.calls[t].count = limiter.count + 1,
               !.calls[t].pc = IF limiter.count + 1 = 1 THEN "expire"
                               ELSE "ttl"]
  /\ redis' = redis
  /\ last' = NoCall
  /\ LimiterFrame

\* if count == 1: await redis.expire(key, window_seconds)
LimitExpire(t) ==
  /\ limiter.calls[t].pc = "expire"
  /\ limiter' =
       IF ~brokerUp
       THEN [limiter EXCEPT !.calls[t] = FailOpen(MaxRequests)]
       ELSE [limiter EXCEPT !.expiry = TRUE, !.calls[t].pc = "ttl"]
  /\ redis' = redis
  /\ last' = NoCall
  /\ LimiterFrame

\* allowed, remaining; ttl = await redis.ttl(key); return
LimitTtl(t) ==
  /\ limiter.calls[t].pc = "ttl"
  /\ LET r == is_allowed_result(limiter.calls[t].count, MaxRequests)
     IN  limiter' =
           IF ~brokerUp
           THEN [limiter EXCEPT !.calls[t] = FailOpen(MaxRequests)]
           ELSE [limiter EXCEPT
                   !.granted = IF r.allowed THEN @ + 1 ELSE @,
                   !.calls[t] = [pc |-> "done",
                                 count |-> limiter.calls[t].count,
                                 allowed |-> r.allowed,
                                 remaining |-> r.remaining,
                                 failed |-> FALSE]]
  /\ redis' = redis
  /\ last' = NoCall
  /\ LimiterFrame

\* the caller has its answer; the task may ask again
LimitReturn(t) ==
  /\ limiter.calls[t].pc = "done"
  /\ limiter' = [limiter EXCEPT !.calls[t] = NoLimitCall]
  /\ redis' = redis
  /\ last' = NoCall
  /\ LimiterFrame

LimiterNext ==
  \/ Startup(LimitProc)
  \/ \E t \in Tasks : LimitCall(t)
  \/ \E t \in Tasks : LimitIncr(t)
  \/ \E t \in Tasks : LimitExpire(t)
  \/ \E t \in Tasks : LimitTtl(t)
  \/ \E t \in Tasks : LimitReturn(t)
  \/ BrokerDown
  \/ BrokerUp

LimiterSpec == Init /\ [][LimiterNext]_vars

Answered == {t \in Tasks : limiter.calls[t].pc = "done"}

\* ================================================== claims (LimiterSpec)
\* C30: for one identifier and one window, at most max_requests of the
\* calls that the broker served return allowed = True, however the callers
\* interleave; each such call reports remaining = max(0, max_requests -
\* count) for the count it got; a call without a handle or with a broker
\* error returns allowed = True.
C30_AtMostMaxAllowed ==
  /\ limiter.granted <= MaxRequests
  /\ \A t \in Answered :
       IF limiter.calls[t].failed
       THEN limiter.calls[t].allowed
       ELSE /\ limiter.calls[t].allowed
                 = (limiter.calls[t].count <= MaxRequests)
            /\ limiter.calls[t].remaining
                 = Max(0, MaxRequests - limiter.calls[t].count)
            /\ limiter.calls[t].count \in 1..limiter.count

\* the window is used up: max_requests calls were allowed, one more was
\* served by the broker and denied, and another one failed open
C30_Witness ==
  /\ limiter.granted = MaxRequests
  /\ \E t \in Answered : ~limiter.calls[t].failed /\ ~limiter.calls[t].allowed
                         /\ limiter.calls[t].remaining = 0
  /\ \E t \in Answered : limiter.calls[t].failed
====
